---- MODULE Spec2Model ----
\* A model of the pretty-printer of src/src/pprint.rs: the document tree
\* (Doc), the Printer, and Doc::print_to / Doc::println as a stack machine
\* that walks the tree exactly as the recursive Rust code does.
EXTENDS Integers, Sequences, FiniteSets, TLC

\* ------------------------------------------------------------------
\* Bounds
\* ------------------------------------------------------------------
\* Documents of up to MaxNodes nodes are enumerated exhaustively.
MaxNodes == 3
\* Target widths 0..MaxWidth are tried (next to the widths of the tests).
MaxWidth == 3
\* How far the history counts the entries of print_to per node and mode.
MaxVisits == 4
\* The operands of + have at most MaxAddNodes nodes.
MaxAddNodes == 2
\* The strings given to Doc::lines have at most MaxLinesLen characters.
MaxLinesLen == 4
\* A MarkupString has at most MaxFragments fragments.
MaxFragments == 3

\* The largest Config.width of the model, an unbounded budget: width is a
\* u32, of which the model's integers hold the lower 31 bits.
UnboundedWidth == 2147483647
\* Config::default().width
DefaultWidth == 80

\* ------------------------------------------------------------------
\* Characters.  Strings are sequences of one-character strings.
\* ------------------------------------------------------------------
NL == "\n"
SP == " "
\* A character that takes two columns.
WIDE == "W"
ESC == "ESC"

\* ------------------------------------------------------------------
\* markup.rs
\* ------------------------------------------------------------------
Markup ==
  {"None", "Error", "Warning", "Trace", "Highlight", "Builtin", "Comment",
   "Identifier", "Keyword", "Number", "String", "Type"}

MarkupMode == {"None", "Ansi"}

\* Option<Markup>: <<>> is None, <<m>> is Some(m).
NoMarkup == <<>>
Some(m) == <<m>>

switch_ansi(markup) ==
  CASE markup = "None"       -> <<ESC, "[", "0", "m">>
    [] markup = "Error"      -> <<ESC, "[", "3", "1", ";", "1", "m">>
    [] markup = "Warning"    -> <<ESC, "[", "3", "3", ";", "1", "m">>
    [] markup = "Trace"      -> <<ESC, "[", "3", "4", ";", "1", "m">>
    [] markup = "Highlight"  -> <<ESC, "[", "3", "7", "m">>
    [] markup = "Builtin"    -> <<ESC, "[", "3", "1", "m">>
    [] markup = "Comment"    -> <<ESC, "[", "3", "7", "m">>
    [] markup = "Identifier" -> <<ESC, "[", "3", "4", "m">>
    [] markup = "Keyword"    -> <<ESC, "[", "3", "2", "m">>
    [] markup = "Number"     -> <<ESC, "[", "3", "6", "m">>
    [] markup = "String"     -> <<ESC, "[", "3", "1", "m">>
    [] markup = "Type"       -> <<ESC, "[", "3", "5", "m">>

\* MarkupMode::get_switch(from, to): the transition sequence from one
\* active markup to another; empty when nothing changes or markup is off.
get_switch(markup_mode, from, to) ==
  IF from = to \/ markup_mode = "None" THEN <<>>
  ELSE IF to = NoMarkup THEN switch_ansi("None")
  ELSE switch_ansi(to[1])

\* ------------------------------------------------------------------
\* Doc
\* ------------------------------------------------------------------
\* Every node is a record of the same shape: k the variant, content and
\* width for Str/String/WhenTall, markup for Markup, children for Concat
\* (any number) and Group/Indent/FlushIndent/Markup (exactly one: inner).
Node(k, content, width, markup, children) ==
  [k |-> k, content |-> content, width |-> width, markup |-> markup,
   children |-> children]

\* Doc::str: the width is the display width; all characters of the model
\* are one column wide.
\* UnicodeWidthStr::width: the columns a string takes.
RECURSIVE unicode_width(_)
unicode_width(value) ==
  IF value = <<>> THEN 0
  ELSE (IF Head(value) = WIDE THEN 2 ELSE 1) + unicode_width(Tail(value))

Str(content)      == Node("Str", content, unicode_width(content), "None", <<>>)
WhenTall(content) == Node("WhenTall", content, Len(content), "None", <<>>)
Sep         == Node("Sep", <<>>, 0, "None", <<>>)
SoftBreak   == Node("SoftBreak", <<>>, 0, "None", <<>>)
HardBreak   == Node("HardBreak", <<>>, 0, "None", <<>>)
RawBreak    == Node("RawBreak", <<>>, 0, "None", <<>>)
Concat(children) == Node("Concat", <<>>, 0, "None", children)
Group(inner)       == Node("Group", <<>>, 0, "None", <<inner>>)
Indent(inner)      == Node("Indent", <<>>, 0, "None", <<inner>>)
FlushIndent(inner) == Node("FlushIndent", <<>>, 0, "None", <<inner>>)
MarkupDoc(markup, inner) == Node("Markup", <<>>, 0, markup, <<inner>>)

empty == Concat(<<>>)

\* str::find('\n'): the index (from 0) of the first line break of s, as
\* Some(i), or NoIndex.
NoIndex == <<>>
RECURSIVE find(_, _)
find(s, from) ==
  IF from > Len(s) THEN NoIndex
  ELSE IF s[from] = NL THEN Some(from - 1)
  ELSE find(s, from + 1)

\* The loop of Doc::lines that forgets the text after the last line break.
RECURSIVE lines_loop_DropsRest(_, _)
lines_loop_DropsRest(result, remainder) ==
  LET found == find(remainder, 1)
      i == found[1]
  IN  IF found # NoIndex
      THEN lines_loop_DropsRest(
             (IF i > 0 THEN Append(result, Str(SubSeq(remainder, 1, i)))
              ELSE result) \o <<HardBreak>>,
             SubSeq(remainder, i + 2, Len(remainder)))
      ELSE result

\* Doc::lines: the loop over the line breaks, then the rest.
RECURSIVE lines_loop(_, _)
lines_loop(result, remainder) ==
  LET found == find(remainder, 1)
      i == found[1]
  IN  IF found # NoIndex
      THEN lines_loop(
             (IF i > 0 THEN Append(result, Str(SubSeq(remainder, 1, i)))
              ELSE result) \o <<HardBreak>>,
             SubSeq(remainder, i + 2, Len(remainder)))
      ELSE IF remainder # <<>> THEN Append(result, Str(remainder))
      ELSE result

\* Doc::lines: the match on result.len().
lines(value) ==
  LET result == lines_loop(<<>>, value)
  IN  IF Len(result) = 1 THEN result[1] ELSE Concat(result)

\* is_forced_tall in which a Group absorbs the breaks of its inner.
RECURSIVE is_forced_tall_StopsAtGroup(_)
is_forced_tall_StopsAtGroup(d) ==
  CASE d.k = "HardBreak" -> TRUE
    [] d.k = "RawBreak"  -> TRUE
    [] d.k \in {"Concat", "Indent", "FlushIndent", "Markup"} ->
         \E i \in 1..Len(d.children) :
            is_forced_tall_StopsAtGroup(d.children[i])
    [] OTHER -> FALSE

\* is_forced_tall that does not look inside Indent.
RECURSIVE is_forced_tall_NotThroughIndent(_)
is_forced_tall_NotThroughIndent(d) ==
  CASE d.k = "HardBreak" -> TRUE
    [] d.k = "RawBreak"  -> TRUE
    [] d.k \in {"Concat", "Group", "FlushIndent", "Markup"} ->
         \E i \in 1..Len(d.children) :
            is_forced_tall_NotThroughIndent(d.children[i])
    [] OTHER -> FALSE

RECURSIVE is_forced_tall(_)
is_forced_tall(d) ==
  CASE d.k = "HardBreak" -> TRUE
    [] d.k = "RawBreak"  -> TRUE
    [] d.k \in {"Concat", "Group", "Indent", "FlushIndent", "Markup"} ->
         \E i \in 1..Len(d.children) : is_forced_tall(d.children[i])
    [] OTHER -> FALSE

\* + that puts the right operand in front of the children of a Concat on
\* the left.
RECURSIVE Add_PushFront(_, _)
Add_PushFront(x, y) ==
  CASE x.k = "Concat" /\ x.children = <<>> -> y
    [] y.k = "Concat" /\ y.children = <<>> -> x
    [] x.k = "Concat" /\ y.k = "Concat" -> Concat(x.children \o y.children)
    [] x.k = "Concat" -> Concat(<<y>> \o x.children)
    [] y.k = "Concat" -> Concat(<<x>> \o y.children)
    [] x.k = "Indent" /\ y.k = "Indent" ->
         Indent(Add_PushFront(x.children[1], y.children[1]))
    [] OTHER -> Concat(<<x, y>>)

\* impl Add for Doc
RECURSIVE Add(_, _)
Add(x, y) ==
  CASE x.k = "Concat" /\ x.children = <<>> -> y
    [] y.k = "Concat" /\ y.children = <<>> -> x
    [] x.k = "Concat" /\ y.k = "Concat" -> Concat(x.children \o y.children)
    [] x.k = "Concat" -> Concat(Append(x.children, y))
    [] y.k = "Concat" -> Concat(<<x>> \o y.children)
    [] x.k = "Indent" /\ y.k = "Indent" ->
         Indent(Add(x.children[1], y.children[1]))
    [] OTHER -> Concat(<<x, y>>)

\* macro doc_concat (concat!): fold the fragments with + from empty.
RECURSIVE doc_concat_from(_, _)
doc_concat_from(result, fragments) ==
  IF fragments = <<>> THEN result
  ELSE doc_concat_from(Add(result, Head(fragments)), Tail(fragments))

doc_concat(fragments) == doc_concat_from(empty, fragments)
group(fragments)        == Group(doc_concat(fragments))
indent(fragments)       == Indent(doc_concat(fragments))
flush_indent(fragments) == FlushIndent(doc_concat(fragments))

\* ------------------------------------------------------------------
\* The documents that are rendered
\* ------------------------------------------------------------------
LeafDocs ==
  {Str(<<"a">>), WhenTall(<<",">>), Sep, SoftBreak, HardBreak, RawBreak,
   empty}

\* The wrappers with one inner document.
Wrappers(inner) ==
  {Group(inner), Indent(inner), FlushIndent(inner),
   MarkupDoc("Keyword", inner)}

\* DocsOfSize(n): every document with exactly n nodes;
\* ChildrenOfSize(n): every sequence of documents with n nodes in total.
RECURSIVE DocsOfSize(_), ChildrenOfSize(_)
DocsOfSize(n) ==
  IF n = 1 THEN LeafDocs
  ELSE UNION {Wrappers(d) : d \in DocsOfSize(n - 1)}
       \cup {Concat(c) : c \in ChildrenOfSize(n - 1)}

ChildrenOfSize(n) ==
  IF n = 0 THEN {<<>>}
  ELSE UNION {{<<d>> \o c : d \in DocsOfSize(k), c \in ChildrenOfSize(n - k)}
              : k \in 1..n}

SmallDocs == UNION {DocsOfSize(n) : n \in 1..MaxNodes}

\* The documents of the tests of pprint.rs.
T(s) == Str(s)
Comma == T(<<",">>)

\* test::format_array_wide_tall
DocArray ==
  group(<<T(<<"[">>), SoftBreak,
          indent(<<T(<<"e", "l", "e", "m", "0">>), Comma, Sep,
                   T(<<"e", "l", "e", "m", "1">>), Comma, Sep,
                   T(<<"e", "l", "e", "m", "2">>), WhenTall(<<",">>)>>),
          SoftBreak, T(<<"]">>)>>)

\* test::hard_break_forces_tall_mode
DocHardBreak ==
  group(<<T(<<"[">>),
          indent(<<HardBreak,
                   T(<<"/", "/", " ", "C", "o", "m", "m", "e", "n", "t", ".">>),
                   SoftBreak,
                   T(<<"e", "l", "e", "m", "0">>)>>),
          SoftBreak, T(<<"]">>)>>)

\* test::format_wide_in_tall
DocWideInTall ==
  group(<<T(<<"[">>), SoftBreak,
          indent(<<group(<<T(<<"[">>), SoftBreak,
                           indent(<<T(<<"a">>), Comma, Sep,
                                    T(<<"b">>), Comma, Sep,
                                    T(<<"c">>), WhenTall(<<",">>)>>),
                           SoftBreak, T(<<"]">>)>>),
                   Comma, Sep,
                   T(<<"e", "l", "e", "m", "0">>), Comma, Sep,
                   T(<<"e", "l", "e", "m", "1">>), Comma, Sep,
                   T(<<"e", "l", "e", "m", "2">>), WhenTall(<<",">>)>>),
          SoftBreak, T(<<"]">>)>>)

TestDocs == {DocArray, DocHardBreak, DocWideInTall}

\* Further documents built from the same constructors: breaks inside
\* indentation, flush-indent after each kind of break, markup around text
\* that ends in a space, nested indentation, a group inside markup.
A == T(<<"a">>)
B == T(<<"b">>)
DocRawInIndent     == indent(<<A, RawBreak, B, HardBreak, A>>)
DocFlushMidLine    == doc_concat(<<A, flush_indent(<<B, HardBreak, A>>), B>>)
DocFlushAfterHard  == doc_concat(<<A, HardBreak, flush_indent(<<B>>)>>)
DocFlushAfterRaw   == doc_concat(<<A, RawBreak, flush_indent(<<B>>)>>)
DocMarkupSpace     ==
  doc_concat(<<MarkupDoc("Keyword", T(<<"l", "e", "t", SP>>)), HardBreak, A>>)
DocMarkupGroup     ==
  doc_concat(<<A, MarkupDoc("Comment", group(<<A, Sep, B>>)), Sep, A>>)
DocNestedIndent    ==
  doc_concat(<<A, indent(<<HardBreak, B, indent(<<HardBreak, A>>),
                           HardBreak, group(<<A, Sep, indent(<<B>>)>>)>>)>>)
DocGroupInFlush    ==
  group(<<A, flush_indent(<<group(<<B, Sep, A>>), Sep, B>>)>>)
DocSoftOutsideGroup == doc_concat(<<A, SoftBreak, group(<<B, Sep, A>>)>>)
DocNestedMarkup    ==
  MarkupDoc("Keyword",
            group(<<A, Sep, MarkupDoc("Comment", B), Sep,
                    MarkupDoc("Keyword", A)>>))
\* Text that ends in spaces, is all spaces or is empty, before each kind of
\* line break and before the end of the document.
DocTrailingSpaces  ==
  indent(<<T(<<"a", SP>>), HardBreak, T(<<SP>>), RawBreak, T(<<SP, SP>>),
           HardBreak, T(<<>>), Sep,
           group(<<A, Sep, group(<<T(<<SP>>)>>)>>)>>)
\* Text whose width is not its length, before and inside a Group.
DocWideChar        ==
  doc_concat(<<T(<<WIDE>>), group(<<A, Sep, T(<<WIDE, WIDE>>)>>)>>)

ExtraDocs ==
  {DocTrailingSpaces, DocWideChar, DocRawInIndent, DocFlushMidLine, DocFlushAfterHard, DocFlushAfterRaw,
   DocMarkupSpace, DocMarkupGroup, DocNestedIndent, DocGroupInFlush,
   DocSoftOutsideGroup, DocNestedMarkup}

Docs == SmallDocs \cup TestDocs \cup ExtraDocs

\* The widths of the tests of pprint.rs.
TestWidths == {5, 8, 15, DefaultWidth}
SmallWidths == 0..MaxWidth \cup {UnboundedWidth}
Widths == SmallWidths \cup TestWidths

\* The calls of println: the small documents at the small widths (wider
\* than their text from 4 on), the others at the widths of the tests too.
Inputs ==
  (SmallDocs \X SmallWidths) \cup ((TestDocs \cup ExtraDocs) \X Widths)

\* The calls of println that are followed to their end: the small
\* documents at a width at which no text fits, at the largest small width
\* and at the unbounded one, the others as above.
EndWidths == {0, MaxWidth, UnboundedWidth}
EndInputs ==
  (SmallDocs \X EndWidths) \cup ((TestDocs \cup ExtraDocs) \X Widths)

\* ------------------------------------------------------------------
\* Positions in a document: the path of child indices from the root.
\* ------------------------------------------------------------------
RECURSIVE NodeAt(_, _)
NodeAt(d, path) ==
  IF path = <<>> THEN d ELSE NodeAt(d.children[Head(path)], Tail(path))

RECURSIVE Paths(_)
Paths(d) ==
  {<<>>} \cup UNION {{<<i>> \o p : p \in Paths(d.children[i])}
                     : i \in 1..Len(d.children)}

\* ------------------------------------------------------------------
\* mod printer
\* ------------------------------------------------------------------
\* PrintResult, with Ord: Fits < Overflow.
PrintResult == {"Fits", "Overflow"}
\* max that keeps its first argument: the fold returns what its last
\* child returned.
max_First(a, b) == a

max(a, b) == IF a = "Overflow" \/ b = "Overflow" THEN "Overflow" ELSE "Fits"
is_overflow(r) == r = "Overflow"

\* Printer::new
PrinterNew(config_width, config_markup) ==
  [out |-> <<>>, width |-> config_width, line_width |-> 0, indent |-> 0,
   needs_indent |-> TRUE, markup |-> NoMarkup, markup_mode |-> config_markup]

Spaces(n) == [i \in 1..n |-> SP]

\* Printer::write_indent
write_indent(p) ==
  IF ~p.needs_indent THEN p
  ELSE [p EXCEPT !.out = @ \o Spaces(p.indent),
                 !.line_width = @ + p.indent,
                 !.needs_indent = FALSE]

\* fits that reports a line of exactly the target width as Overflow.
fits_Strict(p) == IF p.line_width >= p.width THEN "Overflow" ELSE "Fits"

\* Printer::fits
fits(p) == IF p.line_width > p.width THEN "Overflow" ELSE "Fits"

\* Printer::push_str: the printer afterwards; its result is fits of it.
push_str(p, value, width) ==
  LET q == write_indent(p)
  IN  [q EXCEPT !.out = @ \o value, !.line_width = @ + width]

\* Printer::push_char
push_char(p, ch) ==
  LET q == write_indent(p)
  IN  [q EXCEPT !.out = Append(@, ch), !.line_width = @ + 1]

\* str::trim_end_matches(' ')
RECURSIVE trim_end_spaces(_)
trim_end_spaces(s) ==
  IF s # <<>> /\ s[Len(s)] = SP THEN trim_end_spaces(SubSeq(s, 1, Len(s) - 1))
  ELSE s

\* newline that keeps the trailing spaces of the line.
newline_NoTrim(p) ==
  [p EXCEPT !.out = Append(@, NL),
            !.line_width = 0,
            !.needs_indent = TRUE]

\* Printer::newline (after its debug_assert); it returns Fits.
newline(p) ==
  [p EXCEPT !.out = Append(trim_end_spaces(@), NL),
            !.line_width = 0,
            !.needs_indent = TRUE]

\* raw_newline that leaves the indentation pending, as newline does.
raw_newline_Indents(p) == newline(p)

\* Printer::raw_newline
raw_newline(p) == [newline(p) EXCEPT !.needs_indent = FALSE]

\* Printer::flush_newline: the printer afterwards, and whether a newline
\* was emitted.
flush_newline(p) ==
  IF p.needs_indent THEN [p |-> p, emitted |-> FALSE]
  ELSE [p |-> newline(p), emitted |-> TRUE]

\* Printer::try_, before f: the snapshot.
try_snapshot(p) ==
  [len |-> Len(p.out), line_width |-> p.line_width,
   needs_indent |-> p.needs_indent]

\* try_ whose rollback leaves the pending-indent flag as f left it.
try_KeepsFlag(p, snap, result) ==
  IF is_overflow(result)
  THEN [p EXCEPT !.out = SubSeq(@, 1, snap.len),
                 !.line_width = snap.line_width]
  ELSE p

\* try_ without the rollback.
try_NoRollback(p, snap, result) == p

\* try_ whose rollback leaves line_width as f left it.
try_KeepsWidth(p, snap, result) ==
  IF is_overflow(result)
  THEN [p EXCEPT !.out = SubSeq(@, 1, snap.len),
                 !.needs_indent = snap.needs_indent]
  ELSE p

\* Printer::try_, after f returned result.
try_(p, snap, result) ==
  IF is_overflow(result)
  THEN [p EXCEPT !.out = SubSeq(@, 1, snap.len),
                 !.line_width = snap.line_width,
                 !.needs_indent = snap.needs_indent]
  ELSE p

\* indented that resets the depth to 0 instead of taking its 2 back.
indented_exit_ToZero(p) == [p EXCEPT !.indent = 0]

\* indented that does not restore the depth.
indented_exit_NoRestore(p) == p

\* Printer::indented, before and after f.
indented_enter(p) == [p EXCEPT !.indent = @ + 2]
indented_exit(p) == [p EXCEPT !.indent = @ - 2]

\* Printer::with_markup, before f.
with_markup_enter(p, markup) ==
  [p EXCEPT !.out = @ \o get_switch(p.markup_mode, p.markup, Some(markup)),
            !.markup = Some(markup)]

\* with_markup that leaves the tag of the call active afterwards.
with_markup_exit_KeepsTag(p, prev) ==
  [p EXCEPT !.out = @ \o get_switch(p.markup_mode, p.markup, prev)]

\* Printer::with_markup, after f; prev is the markup active before the call.
with_markup_exit(p, prev) ==
  [p EXCEPT !.out = @ \o get_switch(p.markup_mode, p.markup, prev),
            !.markup = prev]

\* ------------------------------------------------------------------
\* The match arms of Doc::print_to that do not recurse: the printer
\* afterwards (p) and the PrintResult (r).
\* ------------------------------------------------------------------
Outcome(p, r) == [p |-> p, r |-> r]

StrArm(p, d) ==
  LET q == push_str(p, d.content, d.width) IN Outcome(q, fits(q))

WhenTallArm(p, d, m) ==
  IF m = "Tall"
  THEN LET q == push_str(p, d.content, d.width) IN Outcome(q, fits(q))
  ELSE Outcome(p, "Fits")

\* The Sep arm that breaks the line in Wide mode too.
SepArm_AlwaysNewline(p, m) == Outcome(newline(p), "Fits")

SepArm(p, m) ==
  IF m = "Tall" THEN Outcome(newline(p), "Fits")
  ELSE LET q == push_char(p, SP) IN Outcome(q, fits(q))

\* The SoftBreak arm that writes a space in Wide mode, as Sep does.
SoftBreakArm_SpaceInWide(p, m) ==
  IF m = "Tall" THEN Outcome(newline(p), "Fits")
  ELSE LET q == push_char(p, SP) IN Outcome(q, fits(q))

SoftBreakArm(p, m) ==
  IF m = "Tall" THEN Outcome(newline(p), "Fits") ELSE Outcome(p, "Fits")

\* The Group arm without the early return for a forced-tall inner.
GroupArm_NoForcedCheck(inner, m) == IF m = "Wide" THEN "wide" ELSE "try"

\* The Group arm that makes its own attempt in Wide mode too.
GroupArm_TryInWide(inner, m) ==
  IF is_forced_tall(inner) THEN "forced" ELSE "try"

\* Which way the Group arm goes: "forced" (inner is forced tall, rendered
\* in the current mode), "wide" (current mode is Wide), "try" (Tall: the
\* speculative wide attempt).
GroupArm(inner, m) ==
  IF is_forced_tall(inner) THEN "forced"
  ELSE IF m = "Wide" THEN "wide"
  ELSE "try"

\* Whether the Indent arm calls Printer::indented.
IndentArm(m) == m = "Tall"

\* ------------------------------------------------------------------
\* Doc::print_to and Doc::println as functions: what print_to makes of the
\* printer p for the document d in mode m, in a build with (dbg) or without
\* debug assertions.  panic is the message the call panicked with, "" when
\* it returned r.
\* ------------------------------------------------------------------
Done(p, r) == [p |-> p, r |-> r, panic |-> ""]
Panicked(p, msg) == [p |-> p, r |-> "Fits", panic |-> msg]
LeadingWhitespace == "Should not try to create leading whitespace!"

RECURSIVE print_to(_, _, _, _), concat_fold(_, _, _, _, _)
print_to(d, p, m, dbg) ==
  LET inner == d.children[1]
      asserts == dbg /\ p.out = <<>>
  IN
  CASE d.k = "Str" -> LET o == StrArm(p, d) IN Done(o.p, o.r)
    [] d.k = "WhenTall" -> LET o == WhenTallArm(p, d, m) IN Done(o.p, o.r)
    [] d.k = "Sep" ->
         IF m = "Tall" /\ asserts THEN Panicked(p, LeadingWhitespace)
         ELSE LET o == SepArm(p, m) IN Done(o.p, o.r)
    [] d.k = "SoftBreak" ->
         IF m = "Tall" /\ asserts THEN Panicked(p, LeadingWhitespace)
         ELSE LET o == SoftBreakArm(p, m) IN Done(o.p, o.r)
    [] d.k = "HardBreak" ->
         IF m = "Wide" THEN Panicked(p, "HardBreak forces Tall mode.")
         ELSE IF asserts THEN Panicked(p, LeadingWhitespace)
         ELSE Done(newline(p), "Fits")
    [] d.k = "RawBreak" ->
         IF m = "Wide" THEN Panicked(p, "RawBreak forces Tall mode.")
         ELSE IF asserts THEN Panicked(p, LeadingWhitespace)
         ELSE Done(raw_newline(p), "Fits")
    [] d.k = "Concat" -> concat_fold(d.children, 1, Done(p, "Fits"), m, dbg)
    [] d.k = "Group" ->
         LET arm == GroupArm(inner, m)
             wide == print_to(inner, p, "Wide", dbg)
             back == try_(wide.p, try_snapshot(p), wide.r)
         IN  IF arm = "forced" /\ dbg /\ m # "Tall"
             THEN Panicked(p, "assertion failed: matches!(mode, Mode::Tall)")
             ELSE IF arm \in {"forced", "wide"} THEN print_to(inner, p, m, dbg)
             ELSE IF wide.panic # "" THEN wide
             ELSE IF wide.r = "Overflow"
             THEN print_to(inner, back, "Tall", dbg)
             ELSE Done(back, "Fits")
    [] d.k = "Indent" ->
         IF IndentArm(m)
         THEN LET a == print_to(inner, indented_enter(p), m, dbg)
              IN  IF a.panic # "" THEN a ELSE Done(indented_exit(a.p), a.r)
         ELSE print_to(inner, p, m, dbg)
    [] d.k = "FlushIndent" ->
         IF m = "Wide" THEN print_to(inner, p, m, dbg)
         ELSE IF ~p.needs_indent /\ asserts
         THEN Panicked(p, LeadingWhitespace)
         ELSE LET fl == flush_newline(p)
                  a == print_to(inner, indented_enter(fl.p), m, dbg)
              IN  IF ~fl.emitted THEN print_to(inner, fl.p, m, dbg)
                  ELSE IF a.panic # "" THEN a
                  ELSE Done(indented_exit(a.p), a.r)
    [] d.k = "Markup" ->
         LET a == print_to(inner, with_markup_enter(p, d.markup), m, dbg)
         IN  IF a.panic # "" THEN a
             ELSE Done(with_markup_exit(a.p, p.markup), a.r)

\* The fold of the Concat arm from child i on; acc is the call so far.
concat_fold(children, i, acc, m, dbg) ==
  IF i > Len(children) \/ acc.panic # "" THEN acc
  ELSE LET a == print_to(children[i], acc.p, m, dbg)
       IN  concat_fold(children, i + 1,
                       IF a.panic # "" THEN a ELSE Done(a.p, max(a.r, acc.r)),
                       m, dbg)

\* Doc::println: the string returned, or the panic.
println(d, config_width, config_markup, dbg) ==
  LET a == print_to(d, PrinterNew(config_width, config_markup), "Tall", dbg)
  IN  IF a.panic # "" THEN [out |-> <<>>, panic |-> a.panic]
      ELSE IF ~a.p.needs_indent /\ dbg /\ a.p.out = <<>>
      THEN [out |-> <<>>, panic |-> LeadingWhitespace]
      ELSE [out |-> flush_newline(a.p).p.out, panic |-> ""]

\* ------------------------------------------------------------------
\* State
\* ------------------------------------------------------------------
VARIABLES
  doc,              \* the document println is called on (&self)
  width,            \* Config.width
  debug_assertions, \* whether the build has debug assertions enabled
  printer,          \* the Printer of the running println
  pc,               \* "idle", "eval" (print_to is entered for cur in mode),
                    \* "ret" (print_to of cur returned res), "panic"
  cur,              \* the path of the node being evaluated
  mode,             \* the Mode cur is evaluated in
  stack,            \* the active calls of print_to below cur, outermost first
  res,              \* the PrintResult just returned
  panic_msg,        \* why the program panicked
  visits,           \* how often print_to was entered per node and mode,
                    \* in the running println
  results,          \* the string println returned, per MarkupMode
  line,             \* history of the current line: what began it ("start":
                    \* Printer::new, "newline", "raw": raw_newline) while
                    \* nothing was pushed on it yet, "text" afterwards
  args,             \* the arguments of a call of a constructor of Doc
                    \* (+, Doc::lines), <<>> when none is called
  ret               \* what that call returned, <<>> before it returns

\* The state of println, and all of the state.
rendering ==
  <<doc, width, debug_assertions, printer, pc, cur, mode, stack, res,
    panic_msg, visits, results, line>>
vars == <<rendering, args, ret>>

\* A call of print_to that waits for a callee: f says where in the arm it
\* waits ("concat": the fold, at child i with r = acc; "try": inside
\* Printer::try_, with its snapshot; "indented": inside Printer::indented;
\* "markup": inside Printer::with_markup, prev saved; "pass": the arm
\* returns what its inner call returns).  entry is history: the printer as
\* it was when the arm was entered, and line with it; rets is history too:
\* what the children of a Concat returned so far.
Frame(f, path, m) ==
  [f |-> f, path |-> path, mode |-> m, i |-> 0, acc |-> "Fits",
   snap |-> [len |-> 0, line_width |-> 0, needs_indent |-> FALSE],
   prev |-> NoMarkup, entry |-> printer, line |-> line, rets |-> <<>>]

Cur == NodeAt(doc, cur)
Top == stack[Len(stack)]
Pop == SubSeq(stack, 1, Len(stack) - 1)

NoVisits == [p \in Paths(doc) |-> [Wide |-> 0, Tall |-> 0]]
NoResults == [m \in MarkupMode |-> [returned |-> FALSE, out |-> <<>>]]

InitOn(inputs) ==
  /\ \E input \in inputs : doc = input[1] /\ width = input[2]
  /\ debug_assertions \in BOOLEAN
  /\ printer = PrinterNew(width, "None")
  /\ pc = "idle"
  /\ cur = <<>>
  /\ mode = "Tall"
  /\ stack = <<>>
  /\ res = "Fits"
  /\ panic_msg = ""
  /\ visits = NoVisits
  /\ results = NoResults
  /\ line = "start"
  /\ args = <<>>
  /\ ret = <<>>

Init == InitOn(Inputs)

\* ------------------------------------------------------------------
\* The ways a step of print_to ends
\* ------------------------------------------------------------------
Panics(msg) ==
  /\ pc' = "panic"
  /\ panic_msg' = msg
  /\ UNCHANGED <<printer, cur, mode, stack, res, results, line>>

\* The arm returns r, leaving the printer as p.
Returns(p, r) ==
  /\ printer' = p
  /\ res' = r
  /\ pc' = "ret"
  /\ UNCHANGED <<cur, mode, stack, panic_msg, results>>

\* The arm calls print_to of its child number i in mode m, and waits in
\* frame.
Calls(p, frame, i, m) ==
  /\ printer' = p
  /\ stack' = Append(stack, frame)
  /\ cur' = Append(cur, i)
  /\ mode' = m
  /\ pc' = "eval"
  /\ UNCHANGED <<res, panic_msg, results>>

\* The waiting call on top of the stack returns r.
TopReturns(p, r) ==
  /\ printer' = p
  /\ res' = r
  /\ cur' = Top.path
  /\ mode' = Top.mode
  /\ stack' = Pop
  /\ pc' = "ret"
  /\ UNCHANGED <<panic_msg, results, line>>

Enter(k) ==
  /\ pc = "eval"
  /\ Cur.k = k
  /\ visits' = [visits EXCEPT ![cur][mode] =
                               IF @ < MaxVisits THEN @ + 1 ELSE @]
  /\ UNCHANGED <<doc, width, debug_assertions, args, ret>>

\* What the step does to the line: a push puts text on it, a newline
\* begins the next one, anything else leaves it as it is.
PushesOnLine == line' = "text"
BeginsLine(how) == line' = how
SameLine == UNCHANGED line

Leave(f) ==
  /\ pc = "ret"
  /\ stack # <<>>
  /\ Top.f = f
  /\ UNCHANGED <<doc, width, debug_assertions, visits, args, ret>>

\* debug_assert!(!self.out.is_empty()) of Printer::newline fails.
NewlineAssertFails(p) == debug_assertions /\ p.out = <<>>

\* ------------------------------------------------------------------
\* Doc::println and Doc::print_to
\* ------------------------------------------------------------------
\* println(config): Printer::new, then print_to(root, Tall).
Println(markup_mode) ==
  /\ pc = "idle"
  /\ ~results[markup_mode].returned
  /\ printer' = PrinterNew(width, markup_mode)
  /\ pc' = "eval"
  /\ cur' = <<>>
  /\ mode' = "Tall"
  /\ stack' = <<>>
  /\ res' = "Fits"
  /\ visits' = NoVisits
  /\ BeginsLine("start")
  /\ UNCHANGED <<doc, width, debug_assertions, panic_msg, results, args, ret>>

\* println after print_to of the root returned: flush_newline, into_inner.
PrintlnReturn ==
  /\ pc = "ret"
  /\ stack = <<>>
  /\ UNCHANGED <<doc, width, debug_assertions, visits, args, ret>>
  /\ IF ~printer.needs_indent /\ NewlineAssertFails(printer)
     THEN Panics(LeadingWhitespace)
     ELSE /\ printer' = flush_newline(printer).p
          /\ results' = [results EXCEPT ![printer.markup_mode] =
                           [returned |-> TRUE, out |-> printer'.out]]
          /\ IF flush_newline(printer).emitted
             THEN BeginsLine("newline") ELSE SameLine
          /\ pc' = "idle"
          /\ UNCHANGED <<cur, mode, stack, res, panic_msg>>

\* Doc::Str and Doc::String
EvalStr ==
  /\ Enter("Str")
  /\ LET o == StrArm(printer, Cur) IN Returns(o.p, o.r)
  /\ PushesOnLine

EvalWhenTall ==
  /\ Enter("WhenTall")
  /\ LET o == WhenTallArm(printer, Cur, mode) IN Returns(o.p, o.r)
  /\ IF mode = "Tall" THEN PushesOnLine ELSE SameLine

EvalSep ==
  /\ Enter("Sep")
  /\ IF mode = "Tall" /\ NewlineAssertFails(printer)
     THEN Panics(LeadingWhitespace)
     ELSE /\ LET o == SepArm(printer, mode) IN Returns(o.p, o.r)
          /\ IF mode = "Tall" THEN BeginsLine("newline") ELSE PushesOnLine

EvalSoftBreak ==
  /\ Enter("SoftBreak")
  /\ IF mode = "Tall" /\ NewlineAssertFails(printer)
     THEN Panics(LeadingWhitespace)
     ELSE /\ LET o == SoftBreakArm(printer, mode) IN Returns(o.p, o.r)
          /\ IF mode = "Tall" THEN BeginsLine("newline") ELSE SameLine

EvalHardBreak ==
  /\ Enter("HardBreak")
  /\ IF mode = "Wide" THEN Panics("HardBreak forces Tall mode.")
     ELSE IF NewlineAssertFails(printer) THEN Panics(LeadingWhitespace)
     ELSE Returns(newline(printer), "Fits") /\ BeginsLine("newline")

EvalRawBreak ==
  /\ Enter("RawBreak")
  /\ IF mode = "Wide" THEN Panics("RawBreak forces Tall mode.")
     ELSE IF NewlineAssertFails(printer) THEN Panics(LeadingWhitespace)
     ELSE Returns(raw_newline(printer), "Fits") /\ BeginsLine("raw")

\* Doc::Concat: the fold starts with Fits.
EvalConcat ==
  /\ Enter("Concat")
  /\ IF Cur.children = <<>> THEN Returns(printer, "Fits")
     ELSE Calls(printer, [Frame("concat", cur, mode) EXCEPT !.i = 1], 1, mode)
  /\ SameLine

\* A child of a Concat returned: doc.print_to(printer, mode).max(r), then
\* the next child or the end of the fold.
RetConcat ==
  /\ Leave("concat")
  /\ LET r == max(res, Top.acc)
         n == Len(NodeAt(doc, Top.path).children)
     IN  IF Top.i < n
         THEN /\ stack' = [stack EXCEPT ![Len(stack)].i = @ + 1,
                                        ![Len(stack)].acc = r,
                                        ![Len(stack)].rets = Append(@, res)]
              /\ cur' = Append(Top.path, Top.i + 1)
              /\ mode' = Top.mode
              /\ pc' = "eval"
              /\ UNCHANGED <<printer, res, panic_msg, results, line>>
         ELSE TopReturns(printer, r)

\* Doc::Group
EvalGroup ==
  /\ Enter("Group")
  /\ LET arm == GroupArm(Cur.children[1], mode)
     IN  CASE arm = "forced" ->
                IF debug_assertions /\ mode # "Tall"
                THEN Panics("assertion failed: matches!(mode, Mode::Tall)")
                ELSE Calls(printer, Frame("pass", cur, mode), 1, mode)
           [] arm = "wide" ->
                Calls(printer, Frame("pass", cur, mode), 1, mode)
           [] arm = "try" ->
                Calls(printer,
                      [Frame("try", cur, mode) EXCEPT
                         !.snap = try_snapshot(printer)],
                      1, "Wide")
  /\ SameLine

\* The closure of try_ returned: roll back on Overflow; then the match on
\* the result of try_: Overflow renders inner in Tall mode, Fits is returned.
RetTry ==
  /\ Leave("try")
  /\ LET p == try_(printer, Top.snap, res)
     IN  IF res = "Overflow"
         THEN /\ printer' = p
              /\ stack' = [stack EXCEPT ![Len(stack)] =
                             [Frame("pass", Top.path, Top.mode) EXCEPT
                                !.entry = p, !.line = Top.line]]
              /\ cur' = Append(Top.path, 1)
              /\ mode' = "Tall"
              /\ pc' = "eval"
              /\ line' = Top.line
              /\ UNCHANGED <<res, panic_msg, results>>
         ELSE TopReturns(p, "Fits")

\* A Group that renders its inner again while the tall rendering
\* overflows, each time from the printer it started with.
RetPass_RetriesOverflow ==
  /\ Leave("pass")
  /\ IF res = "Overflow" /\ Top.mode = "Tall"
        /\ NodeAt(doc, Top.path).k = "Group"
     THEN /\ printer' = Top.entry
          /\ line' = Top.line
          /\ pc' = "eval"
          /\ UNCHANGED <<cur, mode, stack, res, panic_msg, results>>
     ELSE TopReturns(printer, res)

\* An arm that returns what its inner print_to returned.
RetPass ==
  /\ Leave("pass")
  /\ TopReturns(printer, res)

\* Doc::Indent
EvalIndent ==
  /\ Enter("Indent")
  /\ IF IndentArm(mode)
     THEN Calls(indented_enter(printer), Frame("indented", cur, mode), 1, mode)
     ELSE Calls(printer, Frame("pass", cur, mode), 1, mode)
  /\ SameLine

\* The closure of Printer::indented returned.
RetIndented ==
  /\ Leave("indented")
  /\ TopReturns(indented_exit(printer), res)

\* Doc::FlushIndent
EvalFlushIndent ==
  /\ Enter("FlushIndent")
  /\ IF mode = "Wide"
     THEN Calls(printer, Frame("pass", cur, mode), 1, mode) /\ SameLine
     ELSE IF ~printer.needs_indent /\ NewlineAssertFails(printer)
     THEN Panics(LeadingWhitespace)
     ELSE LET fl == flush_newline(printer)
          IN  IF fl.emitted
              THEN /\ Calls(indented_enter(fl.p),
                            Frame("indented", cur, mode), 1, mode)
                   /\ BeginsLine("newline")
              ELSE Calls(fl.p, Frame("pass", cur, mode), 1, mode) /\ SameLine

\* Doc::Markup
EvalMarkup ==
  /\ Enter("Markup")
  /\ Calls(with_markup_enter(printer, Cur.markup),
           [Frame("markup", cur, mode) EXCEPT !.prev = printer.markup],
           1, mode)
  /\ SameLine

\* The closure of Printer::with_markup returned.
RetMarkup ==
  /\ Leave("markup")
  /\ TopReturns(with_markup_exit(printer, Top.prev), res)

\* The steps of a println that is running.
Run ==
  \/ PrintlnReturn
  \/ EvalStr
  \/ EvalWhenTall
  \/ EvalSep
  \/ EvalSoftBreak
  \/ EvalHardBreak
  \/ EvalRawBreak
  \/ EvalConcat
  \/ RetConcat
  \/ EvalGroup
  \/ RetTry
  \/ RetPass
  \/ EvalIndent
  \/ RetIndented
  \/ EvalFlushIndent
  \/ RetMarkup
  \/ EvalMarkup

Next ==
  \/ \E markup_mode \in MarkupMode : Println(markup_mode)
  \/ Run

Spec == Init /\ [][Next]_vars

\* A println that was called runs on: the program is sequential, and a
\* call of print_to that can take a step takes it.  Nothing obliges the
\* caller to call println.
FairSpec == InitOn(EndInputs) /\ [][Next]_vars /\ WF_vars(Run)

\* ------------------------------------------------------------------
\* The constructors of Doc, called on their own: no println is running.
\* ------------------------------------------------------------------
NoPrintln ==
  /\ doc = empty
  /\ width = 0
  /\ debug_assertions = FALSE
  /\ printer = PrinterNew(0, "None")
  /\ pc = "idle"
  /\ cur = <<>>
  /\ mode = "Tall"
  /\ stack = <<>>
  /\ res = "Fits"
  /\ panic_msg = ""
  /\ visits = NoVisits
  /\ results = NoResults
  /\ line = "start"

\* The operands of +: every document of up to MaxAddNodes nodes built from
\* text, Sep, HardBreak, the empty document, Indent, Group and Concat, and
\* some with the other kinds of node.
AddLeaves == {A, Sep, HardBreak, empty}

RECURSIVE AddDocsOfSize(_), AddChildrenOfSize(_)
AddDocsOfSize(n) ==
  IF n = 1 THEN AddLeaves
  ELSE {Indent(d) : d \in AddDocsOfSize(n - 1)}
       \cup {Group(d) : d \in AddDocsOfSize(n - 1)}
       \cup {Concat(c) : c \in AddChildrenOfSize(n - 1)}

AddChildrenOfSize(n) ==
  IF n = 0 THEN {<<>>}
  ELSE UNION {{<<d>> \o c : d \in AddDocsOfSize(k),
                            c \in AddChildrenOfSize(n - k)} : k \in 1..n}

OtherOperands ==
  {WhenTall(<<",">>), SoftBreak, RawBreak, FlushIndent(B),
   MarkupDoc("Keyword", B), Indent(Concat(<<Sep, B>>)),
   Indent(Concat(<<HardBreak, B>>)), Concat(<<A, Sep, Indent(B)>>)}

AddOperands ==
  UNION {AddDocsOfSize(n) : n \in 1..MaxAddNodes} \cup OtherOperands

\* The third operand, for (x + y) + z and x + (y + z).
ThirdOperands == {empty, B, Indent(B), Concat(<<Sep, B>>)}

InitAdd ==
  /\ NoPrintln
  /\ args \in AddOperands \X AddOperands \X ThirdOperands
  /\ ret = <<>>

\* x + y, (x + y) + z and x + (y + z) are evaluated.
CallAdd ==
  /\ ret = <<>>
  /\ LET x == args[1]
         y == args[2]
         z == args[3]
     IN  ret' = [xy |-> Add(x, y),
                 xy_z |-> Add(Add(x, y), z),
                 x_yz |-> Add(x, Add(y, z))]
  /\ UNCHANGED <<rendering, args>>

NextAdd == CallAdd

SpecAdd == InitAdd /\ [][NextAdd]_vars

\* Doc::lines is called on a string of up to MaxLinesLen characters.
LinesChars == {"a", SP, NL}

RECURSIVE StringsOfLen(_)
StringsOfLen(n) ==
  IF n = 0 THEN {<<>>}
  ELSE {Append(s, c) : s \in StringsOfLen(n - 1), c \in LinesChars}

InitLines ==
  /\ NoPrintln
  /\ \E n \in 0..MaxLinesLen : \E s \in StringsOfLen(n) : args = <<s>>
  /\ ret = <<>>

CallLines ==
  /\ ret = <<>>
  /\ ret' = lines(args[1])
  /\ UNCHANGED <<rendering, args>>

NextLines == CallLines

SpecLines == InitLines /\ [][NextLines]_vars

\* ------------------------------------------------------------------
\* MarkupString (src/src/markup.rs): fragments is the Vec of pairs
\* <<text, markup>> in push order.  A writer (dyn Write) is the bytes it
\* took so far and the number of write_all calls it still accepts;
\* write_all on a writer without room is the io error that ? returns.
\* ------------------------------------------------------------------
\* The texts pushed: push takes no empty fragment.
FragmentTexts == {<<"a">>, <<SP>>}

\* Highlight and Comment differ as markup and have the same escape code.
FragmentMarkups == {"None", "Error", "Highlight", "Comment"}

RECURSIVE MarkupStrings(_)
MarkupStrings(n) ==
  IF n = 0 THEN {<<>>}
  ELSE {Append(fs, <<t, m>>) :
          fs \in MarkupStrings(n - 1), t \in FragmentTexts,
          m \in FragmentMarkups}

Writer(room) == [bytes |-> <<>>, room |-> room, ok |-> TRUE]

write_all(out, buf) ==
  IF out.room = 0 THEN [out EXCEPT !.ok = FALSE]
  ELSE [out EXCEPT !.bytes = @ \o buf, !.room = @ - 1]

RECURSIVE write_bytes_no_markup(_, _)
write_bytes_no_markup(fragments, out) ==
  IF fragments = <<>> THEN out
  ELSE LET frag_str == Head(fragments)[1]
           written == write_all(out, frag_str)
       IN  IF ~written.ok THEN written
           ELSE write_bytes_no_markup(Tail(fragments), written)

\* The loop of write_bytes_ansi that never assigns markup.
RECURSIVE write_bytes_ansi_loop_KeepsInitial(_, _, _)
write_bytes_ansi_loop_KeepsInitial(fragments, markup, out) ==
  IF fragments = <<>> THEN out
  ELSE LET frag_str == Head(fragments)[1]
           frag_markup == Head(fragments)[2]
           switched == IF markup # frag_markup
                       THEN write_all(out, switch_ansi(frag_markup))
                       ELSE out
       IN  IF ~switched.ok THEN switched
           ELSE LET written == write_all(switched, frag_str)
                IN  IF ~written.ok THEN written
                    ELSE write_bytes_ansi_loop_KeepsInitial(
                           Tail(fragments), markup, written)

RECURSIVE write_bytes_ansi_loop(_, _, _)
write_bytes_ansi_loop(fragments, markup, out) ==
  IF fragments = <<>> THEN out
  ELSE LET frag_str == Head(fragments)[1]
           frag_markup == Head(fragments)[2]
           switched == IF markup # frag_markup
                       THEN write_all(out, switch_ansi(frag_markup))
                       ELSE out
       IN  IF ~switched.ok THEN switched
           ELSE LET written == write_all(switched, frag_str)
                IN  IF ~written.ok THEN written
                    ELSE write_bytes_ansi_loop(
                           Tail(fragments), frag_markup, written)

write_bytes_ansi(fragments, out) ==
  write_bytes_ansi_loop(fragments, "None", out)

write_bytes(fragments, markup_mode, out) ==
  CASE markup_mode = "None" -> write_bytes_no_markup(fragments, out)
    [] markup_mode = "Ansi" -> write_bytes_ansi(fragments, out)

\* A MarkupString of up to MaxFragments fragments, a markup mode, and a
\* writer that accepts between no write and every write of the string.
InitWrite ==
  /\ NoPrintln
  /\ \E n \in 0..MaxFragments :
       \E fs \in MarkupStrings(n) :
         \E m \in MarkupMode :
           \E room \in 0..(2 * n) : args = <<fs, m, room>>
  /\ ret = <<>>

\* The three writers are called on the same string, each with a writer of
\* its own.
CallWrite ==
  /\ ret = <<>>
  /\ LET fragments == args[1]
         out == Writer(args[3])
     IN  ret' = [no_markup |-> write_bytes_no_markup(fragments, out),
                 ansi |-> write_bytes_ansi(fragments, out),
                 by_mode |-> write_bytes(fragments, args[2], out)]
  /\ UNCHANGED <<rendering, args>>

NextWrite == CallWrite

SpecWrite == InitWrite /\ [][NextWrite]_vars

\* ------------------------------------------------------------------
\* Vocabulary of the properties
\* ------------------------------------------------------------------
\* The output without its escape sequences (ESC up to the closing "m").
RECURSIVE SkipEscape(_), StripMarkup(_)
SkipEscape(s) ==
  IF s = <<>> THEN <<>>
  ELSE IF Head(s) = "m" THEN StripMarkup(Tail(s))
  ELSE SkipEscape(Tail(s))

StripMarkup(s) ==
  IF s = <<>> THEN <<>>
  ELSE IF Head(s) = ESC THEN SkipEscape(Tail(s))
  ELSE <<Head(s)>> \o StripMarkup(Tail(s))

\* The subtree d contains a HardBreak or RawBreak node.
ContainsBreak(d) ==
  \E p \in Paths(d) : NodeAt(d, p).k \in {"HardBreak", "RawBreak"}

\* The proper ancestors of the node at path, as paths.
Ancestors(path) == {SubSeq(path, 1, n) : n \in 0..(Len(path) - 1)}
GroupAncestors(path) == {a \in Ancestors(path) : NodeAt(doc, a).k = "Group"}

\* The modes of the active calls of print_to, outermost first, ending with
\* the node that is being evaluated (or has just returned).
ModeChain == [i \in 1..(Len(stack) + 1) |->
                IF i <= Len(stack) THEN stack[i].mode ELSE mode]

Running == pc \in {"eval", "ret"}
InTry == \E i \in 1..Len(stack) : stack[i].f = "try"

\* The number of calls of Printer::indented that are active.
ActiveIndents == Cardinality({i \in 1..Len(stack) : stack[i].f = "indented"})

\* No text has been written on the current line.
AtLineStart(out) ==
  LET v == StripMarkup(out) IN v = <<>> \/ v[Len(v)] = NL

EndsWith(s, t) ==
  Len(s) >= Len(t) /\ SubSeq(s, Len(s) - Len(t) + 1, Len(s)) = t

SingleLine(out) == \A i \in 1..Len(out) : out[i] = NL => i = Len(out)

InnerPath == Append(cur, 1)

\* ------------------------------------------------------------------
\* C1: a Group evaluated in Tall mode whose inner is not forced tall first
\* renders inner in Wide mode under try_; when that attempt returns Fits
\* the output is kept and the Group returns without rendering inner again;
\* when it returns Overflow the buffer, line width and pending-indent flag
\* are what they were before the attempt and inner is rendered in Tall
\* mode, once, and the Group returns that rendering untouched, whatever its
\* result, with no enclosing attempt left that could discard it.
\* ------------------------------------------------------------------
C1_GroupStep ==
  (pc = "eval" /\ Cur.k = "Group" /\ mode = "Tall"
     /\ ~ContainsBreak(Cur.children[1]))
  => /\ pc' = "eval" /\ cur' = InnerPath /\ mode' = "Wide"
     /\ stack' # <<>> /\ stack'[Len(stack')].f = "try"
     /\ printer' = printer

C1_TryStep ==
  (pc = "ret" /\ stack # <<>> /\ Top.f = "try")
  => IF res = "Fits"
     THEN /\ printer' = printer
          /\ pc' = "ret" /\ res' = "Fits" /\ cur' = Top.path
          /\ stack' = Pop
          /\ visits[cur].Tall = 0
     ELSE /\ printer'.out = Top.entry.out
          /\ printer'.line_width = Top.entry.line_width
          /\ printer'.needs_indent = Top.entry.needs_indent
          /\ pc' = "eval" /\ cur' = cur /\ mode' = "Tall"
          /\ visits[cur].Tall = 0
          /\ ~(\E i \in 1..Len(stack') : stack'[i].f = "try")

C1_TallStep ==
  (pc = "ret" /\ stack # <<>> /\ Top.f = "pass" /\ Top.mode = "Tall"
     /\ NodeAt(doc, Top.path).k = "Group")
  => /\ printer' = printer /\ res' = res /\ pc' = "ret"
     /\ visits[cur].Tall = 1
     /\ ~InTry

C1_GroupTriesWideThenTall ==
  [][C1_GroupStep /\ C1_TryStep /\ C1_TallStep]_vars

\* A Group whose wide attempt overflowed returns its tall rendering, which
\* overflows too.
C1_Witness ==
  /\ pc = "ret" /\ Cur.k = "Group" /\ mode = "Tall"
  /\ ~ContainsBreak(Cur.children[1])
  /\ visits[InnerPath].Wide >= 1 /\ visits[InnerPath].Tall = 1
  /\ res = "Overflow"

\* ------------------------------------------------------------------
\* C2: a HardBreak or RawBreak is never evaluated in Wide mode, all the
\* active calls above it are in Tall mode and none of them is a speculative
\* attempt; neither unreachable!() nor the debug_assert of the Group arm
\* is hit.
\* ------------------------------------------------------------------
C2_BreaksOnlyInTall ==
  /\ panic_msg \notin {"HardBreak forces Tall mode.",
                       "RawBreak forces Tall mode.",
                       "assertion failed: matches!(mode, Mode::Tall)"}
  /\ (Running /\ Cur.k \in {"HardBreak", "RawBreak"})
       => /\ \A i \in 1..(Len(stack) + 1) : ModeChain[i] = "Tall"
          /\ ~InTry

\* A HardBreak below a Group and two more ancestors has been evaluated.
C2_Witness ==
  /\ pc = "ret" /\ Cur.k = "HardBreak" /\ Len(stack) >= 3
  /\ \E i \in 1..Len(stack) : NodeAt(doc, stack[i].path).k = "Group"

\* ------------------------------------------------------------------
\* C5: a Group whose inner contains a HardBreak or RawBreak is evaluated
\* in Tall mode only, renders its inner in Tall mode directly, and never
\* makes a speculative attempt, at any width.
\* ------------------------------------------------------------------
ForcedGroups ==
  {g \in Paths(doc) : NodeAt(doc, g).k = "Group"
                      /\ ContainsBreak(NodeAt(doc, g).children[1])}

C5_ForcedGroupIsTall ==
  \A g \in ForcedGroups :
    /\ visits[g].Wide = 0
    /\ visits[Append(g, 1)].Wide = 0
    /\ \A i \in 1..Len(stack) : stack[i].path = g => stack[i].f = "pass"
    /\ (pc = "ret" /\ cur = g) => visits[Append(g, 1)].Tall = 1

\* The forced-tall group of the test has returned, at a width at which its
\* content would fit on one line.
C5_Witness ==
  /\ doc = DocHardBreak /\ width = DefaultWidth
  /\ pc = "ret" /\ cur = <<>> /\ res = "Fits"

\* ------------------------------------------------------------------
\* C6: below a node evaluated in Wide mode every node is evaluated in Wide
\* mode (a node in Tall mode has only Tall ancestors); a Group below Tall
\* ancestors can still keep its wide attempt.
\* ------------------------------------------------------------------
C6_ModeMonotone ==
  Running =>
    \A i, j \in 1..(Len(stack) + 1) :
      (i < j /\ ModeChain[i] = "Wide") => ModeChain[j] = "Wide"

\* The wide attempt of a Group nested below other nodes in Tall mode fits,
\* after the attempt of an enclosing Group was rolled back.
C6_Witness ==
  /\ pc = "ret" /\ stack # <<>> /\ Top.f = "try" /\ res = "Fits"
  /\ \E i \in 1..(Len(stack) - 1) :
       NodeAt(doc, stack[i].path).k = "Group" /\ stack[i].f = "pass"
  /\ visits[cur].Wide = 2

\* ------------------------------------------------------------------
\* C3: the string println returns ends with a line break, and with exactly
\* one when the document itself contains no break of any kind.
\* ------------------------------------------------------------------
NoBreakNodes ==
  \A p \in Paths(doc) :
    NodeAt(doc, p).k \notin {"Sep", "SoftBreak", "HardBreak", "RawBreak",
                             "FlushIndent"}

C3_EndsWithOneLineBreak ==
  \A m \in MarkupMode :
    results[m].returned =>
      /\ EndsWith(StripMarkup(results[m].out), <<NL>>)
      /\ NoBreakNodes => ~EndsWith(StripMarkup(results[m].out), <<NL, NL>>)

\* ------------------------------------------------------------------
\* C4: the Ansi-mode output of println without its escape sequences is
\* the None-mode output of println for the same document and width.
\* ------------------------------------------------------------------
C4_StrippedAnsiIsPlain ==
  (results["Ansi"].returned /\ results["None"].returned)
    => StripMarkup(results["Ansi"].out) = results["None"].out

\* ------------------------------------------------------------------
\* C7
\* ------------------------------------------------------------------
\* C7 as claimed: a document without HardBreak and RawBreak rendered with
\* an unbounded width has no line break other than the final one.  (Stated
\* of builds with debug assertions, in which println only returns when no
\* assertion of the printer failed on the way.)
C7_UnboundedIsOneLine ==
  \A m \in MarkupMode :
    (debug_assertions /\ results[m].returned /\ width = UnboundedWidth
       /\ ~ContainsBreak(doc))
      => SingleLine(StripMarkup(results[m].out))

\* Every Sep, SoftBreak and FlushIndent of the document is inside a Group.
BreaksInsideGroups ==
  \A p \in Paths(doc) :
    NodeAt(doc, p).k \in {"Sep", "SoftBreak", "FlushIndent"}
      => GroupAncestors(p) # {}

\* C7 amended: a document without HardBreak and RawBreak in which every
\* Sep, SoftBreak and FlushIndent lies inside a Group, rendered with an
\* unbounded width, has no line break other than the final one.
C7_GroupedUnboundedIsOneLine ==
  \A m \in MarkupMode :
    (results[m].returned /\ width = UnboundedWidth /\ ~ContainsBreak(doc)
       /\ BreaksInsideGroups)
      => SingleLine(StripMarkup(results[m].out))

\* The array of the test, with its separators, is returned on one line.
C7_Witness ==
  /\ doc = DocArray /\ width = UnboundedWidth
  /\ results["None"].returned
  /\ Len(results["None"].out) = 22

\* ------------------------------------------------------------------
\* C8
\* ------------------------------------------------------------------
\* The step pushes text: Str, WhenTall in Tall mode, Sep in Wide mode.
PushesText ==
  /\ pc = "eval"
  /\ \/ Cur.k = "Str"
     \/ Cur.k = "WhenTall" /\ mode = "Tall"
     \/ Cur.k = "Sep" /\ mode = "Wide"

Pushed == IF Cur.k = "Sep" THEN <<SP>> ELSE Cur.content

IndentSteps ==
  /\ printer.indent = 2 * ActiveIndents
  /\ (pc = "eval" /\ Cur.k = "Indent" /\ mode = "Wide") => printer' = printer
  /\ (pc = "eval" /\ Cur.k = "Indent" /\ mode = "Tall")
       => printer' = [printer EXCEPT !.indent = @ + 2]

\* C8 as claimed: the first text of every line is preceded by 2 spaces per
\* active call of indented; an Indent in Wide mode changes nothing.
C8_LinePrefix ==
  [][/\ IndentSteps
     /\ (PushesText /\ AtLineStart(printer.out))
          => StripMarkup(printer'.out)
               = StripMarkup(printer.out) \o Spaces(2 * ActiveIndents)
                   \o Pushed]_vars

\* C8 amended: the first text of every line that was not begun by a
\* RawBreak (indentation is pending) is preceded by 2 spaces per active
\* call of indented, the first text of a line begun by a RawBreak by none;
\* an Indent in Wide mode changes nothing, one in Tall mode adds 2 to the
\* depth.
C8_LinePrefixUnlessRaw ==
  [][/\ IndentSteps
     /\ (PushesText /\ AtLineStart(printer.out))
          => StripMarkup(printer'.out)
               = StripMarkup(printer.out)
                   \o (IF printer.needs_indent
                       THEN Spaces(2 * ActiveIndents) ELSE <<>>)
                   \o Pushed]_vars

\* Text has been pushed at the start of a line under two Indents.
C8_Witness ==
  /\ pc = "ret" /\ Cur.k = "Str" /\ ActiveIndents = 2
  /\ EndsWith(printer.out, <<NL, SP, SP, SP, SP, "a">>)

\* ------------------------------------------------------------------
\* C9: FlushIndent in Tall mode changes nothing when no text is on the
\* current line, and otherwise ends the line and renders inner one level
\* deeper; in Wide mode it changes nothing.
\* ------------------------------------------------------------------
C9_FlushIndent ==
  [][(pc = "eval" /\ Cur.k = "FlushIndent" /\ pc' # "panic")
       => /\ cur' = InnerPath /\ mode' = mode
          /\ IF mode = "Wide" \/ AtLineStart(printer.out)
             THEN printer' = printer
             ELSE printer' =
                    [printer EXCEPT
                       !.out = Append(trim_end_spaces(@), NL),
                       !.line_width = 0,
                       !.needs_indent = TRUE,
                       !.indent = @ + 2]]_vars

IsPrefix(s, t) == Len(s) <= Len(t) /\ SubSeq(t, 1, Len(s)) = s

C11_TryRollsBackOnOverflowOnly ==
  [][(pc = "ret" /\ stack # <<>> /\ Top.f = "try")
       => IF res = "Overflow"
          THEN /\ printer' = [printer EXCEPT
                                !.out = Top.entry.out,
                                !.line_width = Top.entry.line_width,
                                !.needs_indent = Top.entry.needs_indent]
               /\ pc' = "eval" /\ mode' = "Tall"
          ELSE /\ printer' = printer
               /\ IsPrefix(Top.entry.out, printer'.out)
               /\ pc' = "ret" /\ res' = "Fits"]_vars

\* An attempt that started on a fresh line wrote indentation and text,
\* overflowed and has just been rolled back: the Group is about to render
\* its inner in Tall mode, with the indentation pending again.
C11_Witness ==
  /\ pc = "eval" /\ mode = "Tall" /\ stack # <<>>
  /\ Top.f = "pass" /\ NodeAt(doc, Top.path).k = "Group"
  /\ visits[cur].Wide >= 1 /\ visits[cur].Tall = 0
  /\ printer.needs_indent /\ printer.indent > 0
  /\ printer.out # <<>>

\* ------------------------------------------------------------------
\* C12: in Wide mode Sep appends one space (after the indentation that is
\* still pending for the line, if any), SoftBreak and WhenTall change
\* nothing and return Fits; in Tall mode Sep and SoftBreak each end the
\* line with one line break and return Fits, and WhenTall appends its
\* content (after any pending indentation) and adds its width to
\* line_width.
\* ------------------------------------------------------------------
\* How often c occurs in s.
Count(s, c) == Cardinality({i \in 1..Len(s) : s[i] = c})

\* The indentation push_str and push_char write first.
Pending == IF printer.needs_indent THEN Spaces(printer.indent) ELSE <<>>

LeafReturns == pc' = "ret" /\ cur' = cur /\ stack' = stack

C12_WideLeaf ==
  /\ (pc = "eval" /\ mode = "Wide" /\ Cur.k = "Sep")
       => /\ LeafReturns
          /\ printer'.out = printer.out \o Pending \o <<SP>>
          /\ printer'.line_width = printer.line_width + Len(Pending) + 1
  /\ (pc = "eval" /\ mode = "Wide" /\ Cur.k \in {"SoftBreak", "WhenTall"})
       => /\ LeafReturns
          /\ printer' = printer
          /\ res' = "Fits"

C12_TallLeaf ==
  /\ (pc = "eval" /\ mode = "Tall" /\ Cur.k \in {"Sep", "SoftBreak"}
        /\ pc' # "panic")
       => /\ LeafReturns
          /\ Count(printer'.out, NL) = Count(printer.out, NL) + 1
          /\ Count(printer'.out, SP) <= Count(printer.out, SP)
          /\ EndsWith(printer'.out, <<NL>>)
          /\ printer'.line_width = 0
          /\ res' = "Fits"
  /\ (pc = "eval" /\ mode = "Tall" /\ Cur.k = "WhenTall")
       => /\ LeafReturns
          /\ printer'.out = printer.out \o Pending \o Cur.content
          /\ printer'.line_width
               = printer.line_width + Len(Pending) + Cur.width

C12_LeafBreakRules == [][C12_WideLeaf /\ C12_TallLeaf]_vars

\* The array of the test at width 15: its separators were tried in Wide
\* mode, the attempt overflowed, and in Tall mode the trailing comma has
\* just been written after the last element.
C12_Witness ==
  /\ doc = DocArray /\ width = 15
  /\ pc = "ret" /\ Cur.k = "WhenTall" /\ mode = "Tall"
  /\ EndsWith(printer.out, <<NL, SP, SP, "e", "l", "e", "m", "2", ",">>)
  /\ \E p \in Paths(doc) :
       NodeAt(doc, p).k = "Sep" /\ visits[p].Wide = 1 /\ visits[p].Tall = 1

\* ------------------------------------------------------------------
\* C14: indented(f) enters f with the depth 2 greater than it was, f
\* returns with that same depth, and after indented the depth is what it
\* was before the call, whether f returned Fits or Overflow; indented is
\* never active inside a speculative attempt and try_ does not touch the
\* depth; the depth is 0 when print_to of the root has returned and when
\* println has returned.
\* ------------------------------------------------------------------
C14_IndentedSteps ==
  /\ (pc' = "eval" /\ stack' # <<>> /\ Len(stack') > Len(stack)
        /\ stack'[Len(stack')].f = "indented")
       => printer'.indent = printer.indent + 2
  /\ (pc = "ret" /\ stack # <<>> /\ Top.f = "indented")
       => /\ printer.indent = Top.entry.indent + 2
          /\ printer'.indent = Top.entry.indent
          /\ res' = res
          /\ ~InTry
  /\ (pc = "ret" /\ stack # <<>> /\ Top.f = "try")
       => /\ printer.indent = Top.entry.indent
          /\ printer'.indent = Top.entry.indent
  /\ (pc = "ret" /\ stack = <<>>) => printer.indent = 0
  /\ pc' = "idle" => printer'.indent = 0

C14_IndentedRestoresDepth == [][C14_IndentedSteps]_vars

\* An Indent nested in another one, inside a Group whose wide attempt was
\* rolled back, has returned Overflow: the depth is that of the enclosing
\* Indent again.
C14_Witness ==
  /\ pc = "ret" /\ Cur.k = "Indent" /\ mode = "Tall" /\ res = "Overflow"
  /\ ActiveIndents = 1 /\ printer.indent = 2
  /\ \E g \in GroupAncestors(cur) :
       visits[Append(g, 1)].Wide >= 1 /\ visits[Append(g, 1)].Tall = 1

\* ------------------------------------------------------------------
\* C15: with_markup(tag, f) makes tag the active one for f, and f returns
\* with it still active; afterwards the active tag is the one from before
\* the call.  Neither before nor after f is anything written when tag was
\* already the active tag, or when the markup mode is None.
\* ------------------------------------------------------------------
C15_WithMarkupSteps ==
  /\ (pc = "eval" /\ Cur.k = "Markup")
       => /\ printer'.markup = Some(Cur.markup)
          /\ (printer.markup = Some(Cur.markup)
                \/ printer.markup_mode = "None") => printer'.out = printer.out
  /\ (pc = "ret" /\ stack # <<>> /\ Top.f = "markup")
       => /\ printer.markup = Some(NodeAt(doc, Top.path).markup)
          /\ printer'.markup = Top.entry.markup
          /\ (Top.entry.markup = printer.markup
                \/ printer.markup_mode = "None") => printer'.out = printer.out
          /\ res' = res

C15_WithMarkupScoped == [][C15_WithMarkupSteps]_vars

\* In Ansi mode a Markup with the tag of its enclosing Markup has returned
\* after one with another tag did: the enclosing tag is active and the
\* output ends with the text, not with an escape sequence.
C15_Witness ==
  /\ doc = DocNestedMarkup /\ printer.markup_mode = "Ansi"
  /\ pc = "ret" /\ Cur.k = "Markup" /\ Cur.markup = "Keyword" /\ cur # <<>>
  /\ printer.markup = Some("Keyword")
  /\ EndsWith(printer.out, <<"m", SP, "a">>)

\* ------------------------------------------------------------------
\* C16: a push of text (push_str for Str and WhenTall, push_char for the
\* space of Sep) first writes the pending indentation when needs_indent is
\* set, adding the depth to line_width and clearing the flag, then appends
\* the text and adds its width to line_width; nothing else of the printer
\* changes, and the result is Fits exactly when the new line_width is at
\* most the target width.
\* ------------------------------------------------------------------
PushedWidth == IF Cur.k = "Sep" THEN 1 ELSE Cur.width

C16_PushStep ==
  PushesText
    => /\ printer' =
            [printer EXCEPT
               !.out = @ \o (IF printer.needs_indent
                             THEN Spaces(printer.indent) ELSE <<>>)
                         \o Pushed,
               !.line_width = @ + (IF printer.needs_indent
                                   THEN printer.indent ELSE 0)
                                + PushedWidth,
               !.needs_indent = FALSE]
       /\ pc' = "ret"
       /\ res' = "Fits" <=> printer'.line_width <= printer.width
       /\ res' = "Overflow" <=> printer'.line_width > printer.width

C16_PushWritesIndentThenText == [][C16_PushStep]_vars

\* Text was pushed after the pending indentation of depth 2, and the line
\* is now exactly as wide as the target: it fits.
C16_Witness ==
  /\ pc = "ret" /\ Cur.k = "Str" /\ res = "Fits"
  /\ printer.indent = 2 /\ width = 3 /\ printer.line_width = width
  /\ EndsWith(printer.out, <<NL, SP, SP>> \o Cur.content)

\* ------------------------------------------------------------------
\* C17: newline() cuts every space off the end of the buffer, that is off
\* the end of the line it closes, appends one line break, sets line_width
\* to 0 and needs_indent to true and leaves the rest of the printer
\* (depth, active markup) alone; the arms that return its result return
\* Fits, also when the closed line was wider than the target.
\* ------------------------------------------------------------------
\* The step calls newline() and nothing else that changes the printer:
\* Sep and SoftBreak in Tall mode, HardBreak, and the flush_newline of
\* println after text.
CallsNewline ==
  /\ pc' # "panic"
  /\ \/ pc = "eval" /\ mode = "Tall"
          /\ Cur.k \in {"Sep", "SoftBreak", "HardBreak"}
     \/ pc = "ret" /\ stack = <<>> /\ ~printer.needs_indent

\* t is s without the spaces at its end.
TrimmedOf(s, t) ==
  /\ IsPrefix(t, s)
  /\ \A i \in (Len(t) + 1)..Len(s) : s[i] = SP
  /\ t # <<>> => t[Len(t)] # SP

C17_NewlineStep ==
  CallsNewline
    => /\ \E n \in 0..Len(printer.out) :
            /\ TrimmedOf(printer.out, SubSeq(printer.out, 1, n))
            /\ printer' = [printer EXCEPT
                             !.out = SubSeq(@, 1, n) \o <<NL>>,
                             !.line_width = 0,
                             !.needs_indent = TRUE]
       /\ pc = "eval" => (pc' = "ret" /\ res' = "Fits")

C17_NewlineClosesLine == [][C17_NewlineStep]_vars

\* The line "let " was closed at width 3: its space is gone, the line was
\* wider than the target, and the HardBreak returned Fits.
C17_Witness ==
  /\ doc = DocMarkupSpace /\ width = 3 /\ printer.markup_mode = "None"
  /\ pc = "ret" /\ Cur.k = "HardBreak" /\ res = "Fits"
  /\ printer.out = <<"l", "e", "t", NL>>
  /\ printer.line_width = 0 /\ printer.needs_indent

\* ------------------------------------------------------------------
\* C18: a RawBreak ends the line and begins one on which the first push
\* of text goes to column 0, without indentation, whatever the depth is;
\* the first push on a line begun by an ordinary newline is preceded by
\* the indentation of the current depth, also after a RawBreak earlier in
\* the document.
\* ------------------------------------------------------------------
C18_Steps ==
  /\ (pc = "eval" /\ Cur.k = "RawBreak" /\ pc' # "panic")
       => /\ line' = "raw"
          /\ EndsWith(printer'.out, <<NL>>)
          /\ printer'.line_width = 0
  /\ (PushesText /\ line = "raw")
       => /\ AtLineStart(printer.out)
          /\ printer'.out = printer.out \o Pushed
          /\ printer'.line_width = PushedWidth
  /\ (PushesText /\ line = "newline")
       => /\ AtLineStart(printer.out)
          /\ printer'.out = printer.out \o Spaces(2 * ActiveIndents) \o Pushed
          /\ printer'.line_width = 2 * ActiveIndents + PushedWidth

C18_RawBreakSkipsIndentation == [][C18_Steps]_vars

\* Inside an Indent: b was written at column 0 after the RawBreak, and
\* the a after the following HardBreak is indented again.
C18_Witness ==
  /\ doc = DocRawInIndent
  /\ pc = "ret" /\ Cur.k = "Str" /\ ActiveIndents = 1
  /\ printer.out = <<SP, SP, "a", NL, "b", NL, SP, SP, "a">>

\* ------------------------------------------------------------------
\* C13: every println that was called ends: it returns its string, or the
\* program panics on an assertion.  A root that returned Overflow is
\* returned like any other: println does not look at the result.
\* ------------------------------------------------------------------
PrintlnEnded == pc \in {"idle", "panic"}

C13_PrintlnTerminates == Running ~> PrintlnEnded

\* println returned a string although no layout fit the width: the tall
\* rendering of the array of the test at width 5 has a line of 8 columns.
C13_Witness ==
  /\ doc = DocArray /\ width = 5
  /\ pc = "idle" /\ res = "Overflow"
  /\ results["None"].returned
  /\ \E i \in 1..Len(results["None"].out) :
       SubSeq(results["None"].out, i, i + 8)
         = <<NL, SP, SP, "e", "l", "e", "m", "0", ",">>

\* ------------------------------------------------------------------
\* C19: x + y is rendered by println as Concat[x, y] is, at every width,
\* in both markup modes and in both kinds of build (the same string, or
\* the same panic), and is forced tall exactly when Concat[x, y] is; the
\* empty document added on either side gives the other operand itself;
\* (x + y) + z is rendered as x + (y + z) is.
\* ------------------------------------------------------------------
SameRendering(d, e) ==
  \A w \in SmallWidths, markup_mode \in MarkupMode, dbg \in BOOLEAN :
    println(d, w, markup_mode, dbg) = println(e, w, markup_mode, dbg)

C19_AddIsConcat ==
  ret # <<>> =>
    LET x == args[1]
        y == args[2]
    IN  /\ SameRendering(ret.xy, Concat(<<x, y>>))
        /\ is_forced_tall(ret.xy) = is_forced_tall(Concat(<<x, y>>))
        /\ x = empty => ret.xy = y
        /\ y = empty => ret.xy = x
        /\ SameRendering(ret.xy_z, ret.x_yz)

\* Two Indents were added and merged into one Indent, and a third
\* operand that is a Concat was added to it.
C19_Witness ==
  /\ ret # <<>>
  /\ args[1].k = "Indent" /\ args[2].k = "Indent"
  /\ is_forced_tall(args[2])
  /\ ret.xy.k = "Indent" /\ ret.xy.children[1].k = "Concat"
  /\ Len(ret.xy_z.children) = 3 /\ Len(ret.x_yz.children) = 4

\* ------------------------------------------------------------------
\* C20: the nodes of Doc::lines(s) (the children of the Concat, or the
\* document itself when it is not a Concat) are Str and HardBreak nodes;
\* there is one HardBreak per line break of s, the texts concatenated are
\* s without its line breaks, no text contains a line break, and with a
\* line break for every HardBreak the nodes spell s, so they are in the
\* order of s.  A single node is returned as it is, not inside a Concat,
\* and the empty string gives the empty document.
\* ------------------------------------------------------------------
NodesOf(d) == IF d.k = "Concat" THEN d.children ELSE <<d>>

\* The texts of the nodes, with t in the place of every HardBreak.
RECURSIVE Spell(_, _)
Spell(nodes, t) ==
  IF nodes = <<>> THEN <<>>
  ELSE (IF Head(nodes).k = "HardBreak" THEN t ELSE Head(nodes).content)
         \o Spell(Tail(nodes), t)

IsLineBreak(c) == c = NL
IsNoLineBreak(c) == c # NL

C20_LinesSplitsAtLineBreaks ==
  ret # <<>> =>
    LET s == args[1]
        nodes == NodesOf(ret)
    IN  /\ \A i \in 1..Len(nodes) : nodes[i].k \in {"Str", "HardBreak"}
        /\ Cardinality({i \in 1..Len(nodes) : nodes[i].k = "HardBreak"})
             = Len(SelectSeq(s, IsLineBreak))
        /\ Spell(nodes, <<>>) = SelectSeq(s, IsNoLineBreak)
        /\ \A i \in 1..Len(nodes) :
             /\ Count(nodes[i].content, NL) = 0
             /\ nodes[i].width = Len(nodes[i].content)
        /\ Spell(nodes, <<NL>>) = s
        /\ ret.k = "Concat" => Len(ret.children) # 1
        /\ s = <<>> => ret = empty

\* "a", two line breaks and " a" gave text, two HardBreaks and text.
C20_Witness ==
  /\ args = << <<"a", NL, NL, SP>> >>
  /\ ret = Concat(<<Str(<<"a">>), HardBreak, HardBreak, Str(<<SP>>)>>)

\* ------------------------------------------------------------------
\* C21: for every node d of a document println is called on (the document
\* is the same in every state of the call), is_forced_tall(d) is true
\* exactly when a HardBreak or RawBreak lies in the subtree of d, at any
\* depth and below any of Concat, Group, Indent, FlushIndent and Markup;
\* of the leaves only HardBreak and RawBreak are forced tall.
\* ------------------------------------------------------------------
C21_ForcedTallIffContainsBreak ==
  pc = "idle" =>
    \A p \in Paths(doc) :
      LET d == NodeAt(doc, p)
      IN  /\ is_forced_tall(d) <=> ContainsBreak(d)
          /\ d.children = <<>>
               => (is_forced_tall(d) <=> d.k \in {"HardBreak", "RawBreak"})

\* A Group whose inner is a Group around a break took the forced-tall
\* path: its inner is evaluated in Tall mode without an attempt.
C21_Witness ==
  /\ pc = "eval" /\ cur = <<1>> /\ mode = "Tall"
  /\ doc.k = "Group" /\ Cur.k = "Group"
  /\ NodeAt(doc, <<1, 1>>).k \in {"HardBreak", "RawBreak"}
  /\ Top.f = "pass" /\ is_forced_tall(doc)

\* ------------------------------------------------------------------
\* C22: a Concat without children returns Fits and changes nothing.
\* Otherwise its children are evaluated one after the other from the
\* first to the last, each once and in the mode of the Concat, whatever the
\* children before returned; the Concat itself writes nothing, and it
\* returns Overflow exactly when one of its children returned Overflow.
\* ------------------------------------------------------------------
C22_ConcatSteps ==
  /\ (pc = "eval" /\ Cur.k = "Concat")
       => /\ printer' = printer
          /\ IF Cur.children = <<>>
             THEN pc' = "ret" /\ res' = "Fits" /\ cur' = cur
             ELSE pc' = "eval" /\ cur' = Append(cur, 1) /\ mode' = mode
  /\ (stack # <<>> /\ Top.f = "concat" /\ Running)
       => /\ cur = Append(Top.path, Top.i)
          /\ mode = Top.mode
          /\ Len(Top.rets) = Top.i - 1
  /\ (pc = "ret" /\ stack # <<>> /\ Top.f = "concat")
       => LET n == Len(NodeAt(doc, Top.path).children)
              all == Append(Top.rets, res)
          IN  /\ printer' = printer
              /\ IF Top.i < n
                 THEN /\ pc' = "eval"
                      /\ cur' = Append(Top.path, Top.i + 1)
                      /\ mode' = Top.mode
                 ELSE /\ pc' = "ret" /\ cur' = Top.path
                      /\ Len(all) = n
                      /\ res' = "Overflow"
                           <=> \E j \in 1..n : all[j] = "Overflow"

C22_ConcatFoldsWorst == [][C22_ConcatSteps]_vars

\* A Concat in Tall mode whose first child overflowed and whose last
\* child is a HardBreak, which fits, has returned Overflow.
C22_Witness ==
  /\ pc = "ret" /\ Cur.k = "Concat" /\ res = "Overflow" /\ mode = "Tall"
  /\ Len(Cur.children) >= 2
  /\ Cur.children[1].k = "Str"
  /\ Cur.children[Len(Cur.children)].k = "HardBreak"
  /\ \A i \in 1..Len(Cur.children) : visits[Append(cur, i)].Tall = 1

\* ------------------------------------------------------------------
\* C23: written to a writer that takes every write, write_bytes_no_markup
\* gives the texts of the fragments in push order; write_bytes_ansi gives
\* the same texts in the same order, with the escape code of a fragment's
\* markup in front of the fragment exactly when that markup differs from
\* the markup of the fragment before it (Markup::None before the first),
\* so that without its escape sequences it is what write_bytes_no_markup
\* gives; write_bytes gives the one in mode None and the other in mode Ansi.
\* ------------------------------------------------------------------
\* The texts of fragments i.. in order, each after the escape code of its
\* markup when escapes is set and the fragment before it has another markup.
RECURSIVE FragmentsFrom(_, _, _)
FragmentsFrom(fs, i, escapes) ==
  IF i > Len(fs) THEN <<>>
  ELSE LET before == IF i = 1 THEN "None" ELSE fs[i - 1][2]
           code == IF escapes /\ fs[i][2] # before
                   THEN switch_ansi(fs[i][2]) ELSE <<>>
       IN  code \o fs[i][1] \o FragmentsFrom(fs, i + 1, escapes)

C23_AnsiIsPlainPlusSwitches ==
  ret # <<>> =>
    LET fs == args[1]
    IN  /\ ret.no_markup.ok
             => ret.no_markup.bytes = FragmentsFrom(fs, 1, FALSE)
        /\ ret.ansi.ok
             => /\ ret.ansi.bytes = FragmentsFrom(fs, 1, TRUE)
                /\ ret.no_markup.ok
                /\ StripMarkup(ret.ansi.bytes) = ret.no_markup.bytes
        /\ ret.by_mode = IF args[2] = "None" THEN ret.no_markup
                         ELSE ret.ansi

\* Three fragments, the second with the markup of the first and the third
\* back to Markup::None, have been written with escape codes.
C23_Witness ==
  /\ ret # <<>> /\ args[2] = "Ansi" /\ ret.by_mode.ok
  /\ Len(args[1]) = 3
  /\ args[1][1][2] = "Error" /\ args[1][2][2] = "Error"
  /\ args[1][3][2] = "None"
  /\ Count(ret.by_mode.bytes, ESC) = 2

\* ------------------------------------------------------------------
\* C24: with markup off, at every point of println and in the string it
\* returns, the character before a line break is not a space: it is
\* another character, a line break, or there is none.
\* ------------------------------------------------------------------
NoSpaceBeforeBreak(out) ==
  \A i \in 1..Len(out) : out[i] = NL => (i = 1 \/ out[i - 1] # SP)

C24_NoTrailingSpaces ==
  /\ (Running /\ printer.markup_mode = "None")
       => NoSpaceBeforeBreak(printer.out)
  /\ results["None"].returned => NoSpaceBeforeBreak(results["None"].out)

\* println has returned, with markup off, the rendering of a document
\* with text ending in spaces before a HardBreak, a RawBreak and the end:
\* the line of indentation and one space has become an empty line.
C24_Witness ==
  /\ doc = DocTrailingSpaces
  /\ results["None"].returned
  /\ IsPrefix(<<SP, SP, "a", NL, NL, NL>>, results["None"].out)
  /\ EndsWith(results["None"].out, <<"a", NL>>)

\* ------------------------------------------------------------------
\* C25: while the closure given to try_ runs, the mode is Wide, try_ is
\* not entered a second time, and every step leaves what the buffer held
\* and only appends to it, nothing of it a line break: no newline, no
\* trimming.  So the buffer as it was at the snapshot is still the start
\* of the buffer when try_ truncates, and after try_ the buffer is either
\* what the closure left (Fits) or exactly the buffer at the snapshot.
\* ------------------------------------------------------------------
TryFrames == {i \in 1..Len(stack) : stack[i].f = "try"}

C25_TrySteps ==
  InTry =>
    LET t == stack[CHOOSE i \in TryFrames : TRUE]
        appended == SubSeq(printer'.out, Len(printer.out) + 1,
                           Len(printer'.out))
    IN  /\ Cardinality(TryFrames) = 1
        /\ mode = "Wide"
        /\ t.snap.len = Len(t.entry.out)
        /\ IsPrefix(t.entry.out, printer.out)
        /\ pc' # "panic"
        /\ IF InTry'
           THEN /\ IsPrefix(printer.out, printer'.out)
                /\ Count(appended, NL) = 0
           ELSE /\ pc = "ret" /\ Top = t
                /\ printer'.out = IF res = "Overflow" THEN t.entry.out
                                  ELSE printer.out

C25_TryBodyOnlyAppends == [][C25_TrySteps]_vars

\* The closure of try_ has come to a Group inside the Group that is being
\* tried, after it has written text behind a buffer that was not empty.
C25_Witness ==
  /\ InTry /\ pc = "eval" /\ Cur.k = "Group"
  /\ Len(cur) > Len(stack[CHOOSE i \in TryFrames : TRUE].path)
  /\ LET t == stack[CHOOSE i \in TryFrames : TRUE]
     IN  /\ t.entry.out # <<>>
         /\ Len(printer.out) > Len(t.entry.out)

\* ------------------------------------------------------------------
\* C26: at every point of println, line_width is the number of columns of
\* what the buffer holds after its last line break, escape sequences not
\* counted: the spaces of the indentation written on that line and the
\* widths of the text pushed on it.  While the indentation is pending
\* (needs_indent) nothing is on the line and line_width is 0.
\* ------------------------------------------------------------------
RECURSIVE CurrentLine(_)
CurrentLine(s) ==
  IF s = <<>> \/ s[Len(s)] = NL THEN <<>>
  ELSE Append(CurrentLine(SubSeq(s, 1, Len(s) - 1)), s[Len(s)])

C26_LineWidthIsColumn ==
  Running =>
    LET on_line == CurrentLine(StripMarkup(printer.out))
    IN  /\ printer.line_width = unicode_width(on_line)
        /\ printer.needs_indent
             => printer.line_width = 0 /\ on_line = <<>>

\* try_ has just rolled back to a line that holds a character of two
\* columns: the Group is about to be rendered tall from the snapshot.
C26_Witness ==
  /\ doc = DocWideChar
  /\ pc = "eval" /\ cur = <<2, 1>> /\ mode = "Tall"
  /\ visits[cur].Wide = 1 /\ visits[cur].Tall = 0
  /\ Top.f = "pass" /\ printer = Top.entry
  /\ printer.out = <<WIDE>> /\ printer.line_width = 2

\* ------------------------------------------------------------------
\* C27: no text of the documents rendered holds a line break, and println
\* never calls newline on an empty buffer, its final flush_newline
\* included: the assertion of newline, "Should not try to create leading
\* whitespace!", does not fail.
\* ------------------------------------------------------------------
C27_NewlineAssertionHolds ==
  /\ \A p \in Paths(doc) : Count(NodeAt(doc, p).content, NL) = 0
  /\ panic_msg # LeadingWhitespace

====
